---- MODULE Spec2Model ----
(***************************************************************************)
(* Model of the three procedural generators of CPP_ProceduralGeneration:   *)
(* AProceduralCityGenerator, AProceduralTerrainGenerator and               *)
(* AProceduralWeaponGenerator.                                             *)
(*                                                                         *)
(* Numbers.  Floats are modelled as exact fixed-point integers: a          *)
(* probability, density, moisture, temperature or height is counted in     *)
(* thousandths or hundredths as noted at each definition, and a comparison *)
(* of two floats is the comparison of the two rationals.  Float rounding   *)
(* is not modelled.                                                        *)
(*                                                                         *)
(* Randomness.  The engine's generators are modelled at reduced width:     *)
(* the process-wide generator behind FMath::Rand/FRand/RandRange is one    *)
(* state word GRand that every draw advances, and an FRandomStream is a    *)
(* state word started from its seed; both step by MutateSeed and yield     *)
(* the new word, so a draw is a pure function of the state it is taken in. *)
(***************************************************************************)
EXTENDS Integers, Sequences, FiniteSets, TLC

VARIABLES
    \* AProceduralWeaponGenerator
    weaponCfg,           \* RandomSeed, MaxEnchantments, LegendaryChance, EpicChance, RareChance
    EnchantmentLibrary,  \* TArray<FString>, filled by BeginPlay
    GeneratedWeapons,    \* TArray<FWeapon>
    weaponCall,          \* the caller's side of the last weapon call: what ran and what it returned
    \* the process
    GRand,               \* state of the process-wide generator (FMath::Rand)
    \* AProceduralTerrainGenerator
    terrainCfg,
    TerrainGrid,
    terrainCall,
    \* AProceduralCityGenerator
    cityCfg,
    Districts,
    RoadNetwork,
    cityCall

weaponVars == <<weaponCfg, EnchantmentLibrary, GeneratedWeapons, weaponCall>>
terrainVars == <<terrainCfg, TerrainGrid, terrainCall>>
cityVars == <<cityCfg, Districts, RoadNetwork, cityCall>>
vars == <<weaponVars, GRand, terrainVars, cityVars>>

-----------------------------------------------------------------------------
(* Bounds of the model *)

\* width in bits of a generator's state word
RandBits == 4
\* most weapons GeneratedWeapons holds before the caller stops asking for sets
MaxGenerated == 2
\* the value at which the counters of calls stop counting
MaxCounted == 2
\* most GenerateVegetation calls the caller makes on one generated terrain
MaxVegetationCalls == 2
\* most PopulateDistricts calls the caller makes on one set of districts
MaxPopulateCalls == 2

-----------------------------------------------------------------------------
(* Arithmetic helpers *)

Min(a, b) == IF a < b THEN a ELSE b
Max(a, b) == IF a > b THEN a ELSE b

\* static_cast<int32>(float): n/d truncated toward zero
TruncDiv(n, d) == IF n >= 0 THEN n \div d ELSE -((-n) \div d)

RECURSIVE Pow2(_)
Pow2(n) == IF n = 0 THEN 1 ELSE 2 * Pow2(n - 1)

-----------------------------------------------------------------------------
(* The engine's random generators *)

RandModulus == Pow2(RandBits)
\* RAND_MAX: the largest value a draw yields
RandMax == RandModulus - 1

\* one step of the generator (FRandomStream::MutateSeed, rand())
MutateSeed(s) == (s * 5 + 3) % RandModulus

\* FRandomStream(Seed): the state a stream starts in
StreamInit(seed) == seed % RandModulus

\* RandHelper(A) on the draw raw: Min(TruncToInt(FRand() * A), A - 1) for A > 0,
\* where FRand() = raw / RAND_MAX lies in [0,1]
RandHelper(raw, A) == IF A > 0 THEN Min((raw * A) \div RandMax, A - 1) ELSE 0

\* RandRange(Lo, Hi) on the draw raw
RandRange(raw, Lo, Hi) == Lo + RandHelper(raw, (Hi - Lo) + 1)

-----------------------------------------------------------------------------
(* AProceduralWeaponGenerator: enumerations *)

\* EWeaponType
Sword == 0
Bow == 1
Staff == 2
Hammer == 3
Spear == 4
Dagger == 5
Rifle == 6
Pistol == 7
Wand == 8
Axe == 9
WeaponTypes == Sword..Axe

\* EWeaponRarity
Common == 0
Uncommon == 1
Rare == 2
Epic == 3
Legendary == 4
Rarities == Common..Legendary

\* EElementalType
Fire == 0
Ice == 1
Lightning == 2
Nature == 3
Holy == 4
Dark == 5
Pure == 6
Chaos == 7
Elements == Fire..Chaos

\* the generator's properties; the three chances are counted in hundredths
MaxEnchantments == weaponCfg.MaxEnchantments
LegendaryChance == weaponCfg.LegendaryChance
EpicChance == weaponCfg.EpicChance
RareChance == weaponCfg.RareChance

\* the literal 0.4f of DetermineRarity, in hundredths
UncommonThreshold == 40

\* FWeaponStat's and FWeapon's default member values.  Damage is counted in
\* hundredths, CriticalChance in hundredths, CriticalDamage, AttackSpeed and
\* SpecialAbilityPower in tenths
DefaultStats ==
    [Damage |-> 1000, CriticalChance |-> 5, CriticalDamage |-> 15,
     AttackSpeed |-> 10, Range |-> 100, SpecialAbilityPower |-> 0]

DefaultWeapon ==
    [WeaponId |-> 0, WeaponName |-> <<>>, Type |-> Sword, Rarity |-> Common,
     Element |-> Pure, Stats |-> DefaultStats, RequiredLevel |-> 1,
     Enchantments |-> <<>>, Weight |-> 10, GoldValue |-> 100]

-----------------------------------------------------------------------------
(* AProceduralWeaponGenerator: operations *)

\* InitializeEnchantmentLibrary: the fifteen names
EnchantmentPool ==
    <<"Burning", "Freezing", "Shocking", "Poisoned", "Blessed", "Cursed",
      "Enchanted", "Sharpened", "Reinforced", "Ethereal", "Timeless", "Wise",
      "Mighty", "Swift", "Resilient">>

\* DetermineRarity with each threshold taken alone instead of cumulatively
DetermineRarityNotCumulative(raw) ==
    IF raw * 100 < LegendaryChance * RandMax THEN Legendary
    ELSE IF raw * 100 < EpicChance * RandMax THEN Epic
    ELSE IF raw * 100 < RareChance * RandMax THEN Rare
    ELSE IF raw * 100 < UncommonThreshold * RandMax THEN Uncommon
    ELSE Common

\* DetermineRarity on the draw raw, Random = raw / RAND_MAX: the chances are
\* hundredths, so Random < c/100 is raw * 100 < c * RAND_MAX
DetermineRarity(raw) ==
    IF raw * 100 < LegendaryChance * RandMax THEN Legendary
    ELSE IF raw * 100 < (LegendaryChance + EpicChance) * RandMax THEN Epic
    ELSE IF raw * 100 < (LegendaryChance + EpicChance + RareChance) * RandMax THEN Rare
    ELSE IF raw * 100 < UncommonThreshold * RandMax THEN Uncommon
    ELSE Common

\* the base damage of the switch's arm for each type
BaseDamage(Type) ==
    CASE Type = Sword -> 25
      [] Type = Bow -> 20
      [] Type = Staff -> 15
      [] Type = Hammer -> 35
      [] Type = Spear -> 22
      [] Type = Dagger -> 15
      [] Type = Rifle -> 30
      [] Type = Pistol -> 18
      [] Type = Wand -> 12
      [] Type = Axe -> 32

\* CalculateWeaponStats: LevelMultiplier = (10 + Level)/10 and
\* RarityMultiplier = (10 + 3*Rarity)/10, so Damage in hundredths is
\* base * (10 + Level) * (10 + 3*Rarity).  The stream the function builds is
\* never drawn from.
CalculateWeaponStats(Weapon, Level) ==
    LET T == Weapon.Type
        R == Weapon.Rarity
        Dmg == BaseDamage(T) * (10 + Level) * (10 + 3 * R)
        S0 == [Weapon.Stats EXCEPT !.Damage = Dmg]
        S1 == CASE T = Sword -> [S0 EXCEPT !.AttackSpeed = 10, !.Range = 200]
                [] T = Bow -> [S0 EXCEPT !.AttackSpeed = 12, !.Range = 1000]
                [] T = Staff -> [S0 EXCEPT !.SpecialAbilityPower = 30 * (10 + 3 * R), !.Range = 500]
                [] T = Hammer -> [S0 EXCEPT !.AttackSpeed = 7, !.CriticalDamage = 20, !.Range = 150]
                [] T = Spear -> [S0 EXCEPT !.AttackSpeed = 11, !.Range = 300]
                [] T = Dagger -> [S0 EXCEPT !.AttackSpeed = 15, !.CriticalChance = 20, !.Range = 100]
                [] T = Rifle -> [S0 EXCEPT !.AttackSpeed = 9, !.Range = 2000]
                [] T = Pistol -> [S0 EXCEPT !.AttackSpeed = 13, !.Range = 800]
                [] T = Wand -> [S0 EXCEPT !.SpecialAbilityPower = 40 * (10 + 3 * R), !.Range = 600]
                [] T = Axe -> [S0 EXCEPT !.AttackSpeed = 8, !.Range = 180]
        W == CASE T = Sword -> 15
               [] T = Bow -> 5
               [] T = Staff -> 8
               [] T = Hammer -> 25
               [] T = Spear -> 12
               [] T = Dagger -> 3
               [] T = Rifle -> 7
               [] T = Pistol -> 4
               [] T = Wand -> 2
               [] T = Axe -> 20
    IN  [Weapon EXCEPT !.Stats = [S1 EXCEPT !.CriticalChance = @ + 2 * R],
                       !.Weight = W]

\* GenerateWeaponName.  An FString is modelled as the sequence of its pieces,
\* a space being the piece " ", so that + is \o
GenerateWeaponName(Type, Rarity, Element) ==
    LET ElementName ==
            CASE Element = Fire -> <<"Flaming">>
              [] Element = Ice -> <<"Frozen">>
              [] Element = Lightning -> <<"Thundering">>
              [] Element = Nature -> <<"Natural">>
              [] Element = Holy -> <<"Holy">>
              [] Element = Dark -> <<"Dark">>
              [] OTHER -> <<>>
        TypeName ==
            CASE Type = Sword -> <<"Sword">>
              [] Type = Bow -> <<"Bow">>
              [] Type = Staff -> <<"Staff">>
              [] Type = Hammer -> <<"Hammer">>
              [] Type = Spear -> <<"Spear">>
              [] Type = Dagger -> <<"Dagger">>
              [] Type = Rifle -> <<"Rifle">>
              [] Type = Pistol -> <<"Pistol">>
              [] Type = Wand -> <<"Wand">>
              [] Type = Axe -> <<"Axe">>
        RarityPrefix ==
            CASE Rarity = Legendary -> <<"Legendary", " ">>
              [] Rarity = Epic -> <<"Epic", " ">>
              [] Rarity = Rare -> <<"Rare", " ">>
              [] OTHER -> <<>>
    IN  RarityPrefix \o ElementName \o <<" ">> \o TypeName

\* AddEnchantment without its check of MaxEnchantments
AddEnchantmentNoCap(Weapon, Element, g) ==
    LET Num == Len(EnchantmentLibrary)
        g1 == IF Num > 0 THEN MutateSeed(g) ELSE g
        RandomIndex == RandRange(g1, 0, Num - 1)
    IN  IF RandomIndex >= 0 /\ RandomIndex < Num
        THEN [weapon |-> [Weapon EXCEPT !.Enchantments =
                              Append(@, EnchantmentLibrary[RandomIndex + 1])],
              g |-> g1]
        ELSE [weapon |-> Weapon, g |-> g1]

\* AddEnchantment(Weapon, Element) run with the process generator in state g:
\* the weapon afterwards and the generator's state afterwards.  RandRange
\* draws only when its range is not empty.
AddEnchantment(Weapon, Element, g) ==
    IF Len(Weapon.Enchantments) >= MaxEnchantments
    THEN [weapon |-> Weapon, g |-> g]
    ELSE LET Num == Len(EnchantmentLibrary)
             g1 == IF Num > 0 THEN MutateSeed(g) ELSE g
             RandomIndex == RandRange(g1, 0, Num - 1)
         IN  IF RandomIndex >= 0 /\ RandomIndex < Num
             THEN [weapon |-> [Weapon EXCEPT !.Enchantments =
                                   Append(@, EnchantmentLibrary[RandomIndex + 1])],
                   g |-> g1]
             ELSE [weapon |-> Weapon, g |-> g1]

\* the switch of GenerateWeapon: enchantments wanted for a rarity
NumEnchantmentsFor(Rarity) ==
    CASE Rarity = Legendary -> 4
      [] Rarity = Epic -> 3
      [] Rarity = Rare -> 2
      [] Rarity = Uncommon -> 1
      [] OTHER -> 0

\* CalculateWeaponValue pricing the enchantments the rarity asks for instead
\* of those attached
CalculateWeaponValueWanted(Weapon) ==
    LET BaseValue == 100
        RarityValue == Weapon.Rarity * 200
        StatsValue == TruncDiv(Weapon.Stats.Damage, 20)
        EnchantmentValue == NumEnchantmentsFor(Weapon.Rarity) * 150
    IN  BaseValue + RarityValue + StatsValue + EnchantmentValue

\* CalculateWeaponValue: Damage * 5 is Damage-in-hundredths / 20, cast to int32
CalculateWeaponValue(Weapon) ==
    LET BaseValue == 100
        RarityValue == Weapon.Rarity * 200
        StatsValue == TruncDiv(Weapon.Stats.Damage, 20)
        EnchantmentValue == Len(Weapon.Enchantments) * 150
    IN  BaseValue + RarityValue + StatsValue + EnchantmentValue

\* the loop of GenerateWeapon from index i
RECURSIVE EnchantLoop(_, _, _, _)
EnchantLoop(Weapon, g, i, NumEnchantments) ==
    IF i < NumEnchantments /\ i < MaxEnchantments
    THEN LET r == AddEnchantment(Weapon, Weapon.Element, g)
         IN  EnchantLoop(r.weapon, r.g, i + 1, NumEnchantments)
    ELSE [weapon |-> Weapon, g |-> g]

\* GenerateWeapon(Type, Level) run with the process generator in state g
GenerateWeapon(Type, Level, g) ==
    LET g1 == MutateSeed(g)      \* FMath::Rand() for the id
        g2 == MutateSeed(g1)     \* FMath::FRand() of DetermineRarity
        g3 == MutateSeed(g2)     \* FMath::RandRange(0, 7)
        Rarity == DetermineRarity(g2)
        Element == RandRange(g3, 0, 7)
        W0 == [DefaultWeapon EXCEPT !.WeaponId = g1, !.Type = Type,
                                    !.Rarity = Rarity, !.RequiredLevel = Level,
                                    !.Element = Element,
                                    !.WeaponName = GenerateWeaponName(Type, Rarity, Element)]
        W1 == CalculateWeaponStats(W0, Level)
        r == EnchantLoop(W1, g3, 0, NumEnchantmentsFor(Rarity))
    IN  [weapon |-> [r.weapon EXCEPT !.GoldValue = CalculateWeaponValue(r.weapon)],
         g |-> r.g]

\* GenerateRandomWeapon(Level)
GenerateRandomWeapon(Level, g) ==
    LET g1 == MutateSeed(g)
        RandomType == RandRange(g1, 0, 9)
    IN  GenerateWeapon(RandomType, Level, g1)

\* GenerateWeaponSet(Count, Level) from loop index i: the set built so far,
\* GeneratedWeapons and the process generator afterwards
RECURSIVE WeaponSetLoop(_, _, _, _, _, _)
WeaponSetLoop(i, Count, Level, WeaponSet, Generated, g) ==
    IF i < Count
    THEN LET r == GenerateRandomWeapon(Level, g)
         IN  WeaponSetLoop(i + 1, Count, Level, Append(WeaponSet, r.weapon),
                           Append(Generated, r.weapon), r.g)
    ELSE [set |-> WeaponSet, generated |-> Generated, g |-> g]

-----------------------------------------------------------------------------
(* AProceduralTerrainGenerator *)

\* EBiomeType
Plains == 0
Forest == 1
Desert == 2
Mountain == 3
Tundra == 4
Volcanic == 5
Jungle == 6
Ocean == 7
Biomes == Plains..Ocean

\* the generator's properties.  Heights, moistures and temperatures are
\* counted in thousandths, NoisePersistence and the densities in hundredths
TerrainWidth == terrainCfg.TerrainWidth
TerrainHeight == terrainCfg.TerrainHeight
NoiseOctaves == terrainCfg.NoiseOctaves
NoisePersistence == terrainCfg.NoisePersistence
TreeDensity == terrainCfg.TreeDensity
RockDensity == terrainCfg.RockDensity
BushDensity == terrainCfg.BushDensity

\* the float that 0.0f / 0.0f yields; every comparison with it is false
NaN == 999999
FLess(a, b) == a # NaN /\ b # NaN /\ a < b
FGreater(a, b) == a # NaN /\ b # NaN /\ a > b

\* FMath::Clamp(X, Lo, Hi): (X < Lo) ? Lo : (X < Hi) ? X : Hi
Clamp(X, Lo, Hi) == IF FLess(X, Lo) THEN Lo ELSE IF FLess(X, Hi) THEN X ELSE Hi

\* FTerrainCell's default member values
DefaultCell ==
    [Height |-> 0, Moisture |-> 0, Temperature |-> 500, BiomeType |-> Plains,
     Objects |-> <<>>, bWalkable |-> TRUE]

\* the octave loop of GetPerlinNoise from octave i: Value is counted in
\* 1/(1000 * RandModulus), Amplitude and MaxValue in thousandths; a stream's
\* FRand() is its new state word over RandModulus, in [0,1)
RECURSIVE PerlinLoop(_, _, _, _, _)
PerlinLoop(i, Random, Value, Amplitude, MaxValue) ==
    IF i < NoiseOctaves
    THEN LET r == MutateSeed(Random)
         IN  PerlinLoop(i + 1, r, Value + r * Amplitude,
                        (Amplitude * NoisePersistence) \div 100, MaxValue + Amplitude)
    ELSE [Value |-> Value, MaxValue |-> MaxValue]

\* GetPerlinNoise(X, Y, Seed): Value / MaxValue in thousandths
GetPerlinNoise(X, Y, Seed) ==
    LET r == PerlinLoop(0, StreamInit(Seed + (X + Y * 1000)), 0, 1000, 0)
    IN  IF r.MaxValue = 0 THEN NaN
        ELSE (1000 * r.Value) \div (RandModulus * r.MaxValue)

\* DetermineBiome with the Forest and Volcanic rules in the other order
DetermineBiomeSwapped(Height, Moisture, Temperature) ==
    IF FLess(Height, -300) THEN Ocean
    ELSE IF FGreater(Height, 700) THEN Mountain
    ELSE IF FLess(Temperature, 200) THEN Tundra
    ELSE IF FGreater(Temperature, 800) /\ FGreater(Moisture, 600) THEN Jungle
    ELSE IF FGreater(Temperature, 800) /\ FLess(Moisture, 300) THEN Desert
    ELSE IF FGreater(Temperature, 600) /\ FGreater(Height, 500) THEN Volcanic
    ELSE IF FGreater(Height, 400) /\ FGreater(Moisture, 500) THEN Forest
    ELSE Plains

\* DetermineBiome(Height, Moisture, Temperature)
DetermineBiome(Height, Moisture, Temperature) ==
    IF FLess(Height, -300) THEN Ocean
    ELSE IF FGreater(Height, 700) THEN Mountain
    ELSE IF FLess(Temperature, 200) THEN Tundra
    ELSE IF FGreater(Temperature, 800) /\ FGreater(Moisture, 600) THEN Jungle
    ELSE IF FGreater(Temperature, 800) /\ FLess(Moisture, 300) THEN Desert
    ELSE IF FGreater(Height, 400) /\ FGreater(Moisture, 500) THEN Forest
    ELSE IF FGreater(Temperature, 600) /\ FGreater(Height, 500) THEN Volcanic
    ELSE Plains

\* GenerateHeightMap over the cells from index i (1-based) on: each Height is
\* FMath::FRand() * 2 - 1, FMath::FRand() being the draw over RAND_MAX
RECURSIVE GenerateHeightMap(_, _, _)
GenerateHeightMap(Grid, i, g) ==
    IF i > Len(Grid) THEN [grid |-> Grid, g |-> g]
    ELSE LET g1 == MutateSeed(g)
         IN  GenerateHeightMap(
                 [Grid EXCEPT ![i].Height = (2000 * g1) \div RandMax - 1000], i + 1, g1)

\* GenerateMoistureMap
GenerateMoistureMap(Grid) ==
    [i \in 1..Len(Grid) |->
        [Grid[i] EXCEPT !.Moisture = Max(0, 1000 - TruncDiv(Grid[i].Height, 2))]]

\* GenerateTemperatureMap: LatitudeFactor is (i / TerrainHeight) / TerrainHeight
\* for the 0-based index i
GenerateTemperatureMap(Grid) ==
    [i \in 1..Len(Grid) |->
        LET LatitudeFactor == (1000 * ((i - 1) \div TerrainHeight)) \div TerrainHeight
        IN  [Grid[i] EXCEPT !.Temperature =
                Clamp(500 + TruncDiv(Grid[i].Height * 3, 10)
                          - TruncDiv(LatitudeFactor * 4, 10), 0, 1000)]]

\* the cell GenerateTerrain builds for (X, Y) on the draw g1 of the process
\* generator
TerrainCellAt(X, Y, g1) ==
    LET H == GetPerlinNoise(X, Y, terrainCfg.RandomSeed)
        M == (1000 * g1) \div RandMax
        T == Clamp(IF H = NaN THEN NaN ELSE 500 + TruncDiv(H, 2), 0, 1000)
    IN  [DefaultCell EXCEPT !.Height = H, !.Moisture = M, !.Temperature = T,
                            !.BiomeType = DetermineBiome(H, M, T),
                            !.bWalkable = FGreater(H, -300)]

\* the fill loop of GenerateTerrain from (X, Y) on: X is the outer loop, Y the
\* inner one.  coords lists the coordinate each stored cell was built for
RECURSIVE FillGrid(_, _, _, _, _)
FillGrid(X, Y, Grid, coords, g) ==
    IF X >= TerrainWidth THEN [grid |-> Grid, coords |-> coords, g |-> g]
    ELSE IF Y >= TerrainHeight THEN FillGrid(X + 1, 0, Grid, coords, g)
    ELSE LET g1 == MutateSeed(g)
         IN  FillGrid(X, Y + 1, Append(Grid, TerrainCellAt(X, Y, g1)),
                      Append(coords, <<X, Y>>), g1)

\* GenerateTerrain run with the process generator in state g
GenerateTerrain(g) ==
    LET h == GenerateHeightMap(<<>>, 1, g)
        m == GenerateMoistureMap(h.grid)
        t == GenerateTemperatureMap(m)
    IN  FillGrid(0, 0, t, <<>>, h.g)

\* the loop of GenerateVegetation over the cells from index i (1-based) on,
\* RandomStream being the stream's state
RECURSIVE VegetationLoop(_, _, _)
VegetationLoop(Grid, i, RandomStream) ==
    IF i > Len(Grid) THEN Grid
    ELSE IF ~Grid[i].bWalkable THEN VegetationLoop(Grid, i + 1, RandomStream)
    ELSE LET Cell == Grid[i]
             treeRoll == Cell.BiomeType = Forest \/ Cell.BiomeType = Jungle
             s1 == IF treeRoll THEN MutateSeed(RandomStream) ELSE RandomStream
             O1 == IF treeRoll /\ s1 * 100 < TreeDensity * RandModulus
                   THEN Append(Cell.Objects, "tree") ELSE Cell.Objects
             s2 == MutateSeed(s1)
             O2 == IF s2 * 100 < RockDensity * RandModulus
                   THEN Append(O1, "rock") ELSE O1
             s3 == MutateSeed(s2)
             O3 == IF s3 * 100 < BushDensity * RandModulus
                   THEN Append(O2, "bush") ELSE O2
         IN  VegetationLoop([Grid EXCEPT ![i].Objects = O3], i + 1, s3)

\* ClearTerrain destroys the actors of VegetationActors, a list nothing ever
\* adds to; it leaves the grid as it is
ClearTerrain(Grid) == Grid

\* GenerateVegetation drawing from a stream seeded RandomSeed + 1
GenerateVegetationOtherSeed(Grid) ==
    VegetationLoop(ClearTerrain(Grid), 1, StreamInit(terrainCfg.RandomSeed + 1))

\* GenerateVegetation
GenerateVegetation(Grid) ==
    VegetationLoop(ClearTerrain(Grid), 1, StreamInit(terrainCfg.RandomSeed))

-----------------------------------------------------------------------------
(* AProceduralCityGenerator *)

\* EBuildingType
Residential == 0
Commercial == 1
Industrial == 2
Government == 3
Religious == 4
Military == 5
Educational == 6
Entertainment == 7
Infrastructure == 8
BuildingTypes == Residential..Infrastructure

\* the generator's properties; BuildingDensity is counted in hundredths
CityRadius == cityCfg.CityRadius
CityPopulation == cityCfg.CityPopulation
NumberOfDistricts == cityCfg.NumberOfDistricts
BuildingsPerDistrict == cityCfg.BuildingsPerDistrict
BuildingDensity == cityCfg.BuildingDensity

\* an FVector
Vec(x, y, z) == [X |-> x, Y |-> y, Z |-> z]
VecAdd(a, b) == Vec(a.X + b.X, a.Y + b.Y, a.Z + b.Z)

\* GetActorLocation(): the generator stands at the origin
ActorLocation == Vec(0, 0, 0)

\* FMath::Cos and FMath::Sin of an angle in degrees, in thousandths, the angle
\* taken down to a multiple of 15 degrees
CosTable ==
    <<1000, 966, 866, 707, 500, 259, 0, -259, -500, -707, -866, -966,
      -1000, -966, -866, -707, -500, -259, 0, 259, 500, 707, 866, 966>>
Cos(deg) == CosTable[((deg % 360) \div 15) + 1]
Sin(deg) == Cos(deg + 270)

\* FRandomStream::RandRange(Lo, Hi) and FRandRange(Lo, Hi) on the stream's new
\* state word s, its fraction s / RandModulus lying in [0,1)
StreamRandRange(s, Lo, Hi) == Lo + (s * ((Hi - Lo) + 1)) \div RandModulus
StreamFRandRange(s, Lo, Hi) == Lo + (s * (Hi - Lo)) \div RandModulus

\* the switch of GenerateDistricts
DistrictTypeName(TypeChoice) ==
    CASE TypeChoice = 0 -> "residential"
      [] TypeChoice = 1 -> "commercial"
      [] TypeChoice = 2 -> "industrial"
      [] TypeChoice = 3 -> "mixed"

\* CreateDistrict(Index), Index 0-based
CreateDistrict(Ds, Index) ==
    IF Index >= 0 /\ Index < Len(Ds)
    THEN [Ds EXCEPT ![Index + 1].Buildings = <<>>]
    ELSE Ds

\* the loop of GenerateDistricts from index i on.  Angles are whole degrees,
\* distances whole units
RECURSIVE DistrictLoop(_, _, _)
DistrictLoop(i, Ds, RandomStream) ==
    IF i < NumberOfDistricts
    THEN LET s == MutateSeed(RandomStream)
             Angle == (i * 360) \div NumberOfDistricts
             DistanceFromCenter == TruncDiv(CityRadius * 6, 10)
             District ==
                 [DistrictName |-> <<"District_", i>>,
                  Center |-> VecAdd(ActorLocation,
                                    Vec(TruncDiv(Cos(Angle) * DistanceFromCenter, 1000),
                                        TruncDiv(Sin(Angle) * DistanceFromCenter, 1000), 0)),
                  Radius |-> TruncDiv(CityRadius * 2, NumberOfDistricts),
                  Buildings |-> <<>>,
                  Population |-> TruncDiv(CityPopulation, NumberOfDistricts),
                  DistrictType |-> DistrictTypeName(StreamRandRange(s, 0, 3))]
         IN  DistrictLoop(i + 1, Append(CreateDistrict(Ds, i), District), s)
    ELSE Ds

\* GenerateDistricts: the districts afterwards
GenerateDistricts(Ds) == DistrictLoop(0, <<>>, StreamInit(cityCfg.RandomSeed))

\* the loop of GenerateRoadNetwork from index i on
RECURSIVE RoadLoop(_, _, _)
RoadLoop(i, Ds, Roads) ==
    IF i < Len(Ds)
    THEN LET NextDistrict == (i + 1) % Len(Ds)
             MainRoad == [StartPoint |-> Ds[i + 1].Center,
                          EndPoint |-> Ds[NextDistrict + 1].Center,
                          RoadType |-> "main", Width |-> 25]
             SecondaryRoad == [StartPoint |-> Ds[i + 1].Center,
                               EndPoint |-> ActorLocation,
                               RoadType |-> "secondary", Width |-> 15]
         IN  RoadLoop(i + 1, Ds, Append(Append(Roads, MainRoad), SecondaryRoad))
    ELSE Roads

\* GenerateRoadNetwork without RoadNetwork.Empty()
GenerateRoadNetworkKeeping(Ds, Roads) == RoadLoop(0, Ds, Roads)

\* GenerateRoadNetwork: the road network afterwards
GenerateRoadNetwork(Ds, Roads) == RoadLoop(0, Ds, <<>>)

\* the seed of the stream GenerateRandomLocationInDistrict creates
LocationStreamSeed(District) == cityCfg.RandomSeed + 3

\* the seed of the stream GenerateBuilding creates
BuildingStreamSeed(DistrictIndex) == cityCfg.RandomSeed + DistrictIndex * 100

\* GenerateRandomLocationInDistrict: a fresh stream seeded RandomSeed + 3
GenerateRandomLocationInDistrict(District) ==
    LET s1 == MutateSeed(StreamInit(LocationStreamSeed(District)))
        s2 == MutateSeed(s1)
        RandomAngle == (s1 * 360) \div RandModulus
        RandomDistance == TruncDiv(s2 * District.Radius * 8, RandModulus * 10)
    IN  VecAdd(District.Center,
               Vec(TruncDiv(Cos(RandomAngle) * RandomDistance, 1000),
                   TruncDiv(Sin(RandomAngle) * RandomDistance, 1000), 0))

\* the arms of GenerateBuilding's switch: the ranges of Size.X, Size.Y, Size.Z
\* and Floors, and the material; Industrial draws no floor count
BuildingProfile(Type) ==
    CASE Type = Residential ->
             [X |-> <<20, 50>>, Y |-> <<20, 50>>, Z |-> <<30, 100>>,
              Floors |-> <<1, 5>>, drawsFloors |-> TRUE, Material |-> "Brick"]
      [] Type = Commercial ->
             [X |-> <<50, 100>>, Y |-> <<50, 100>>, Z |-> <<50, 150>>,
              Floors |-> <<3, 10>>, drawsFloors |-> TRUE, Material |-> "Glass"]
      [] Type = Industrial ->
             [X |-> <<100, 200>>, Y |-> <<100, 200>>, Z |-> <<30, 80>>,
              Floors |-> <<1, 1>>, drawsFloors |-> FALSE, Material |-> "Concrete"]
      [] Type = Government ->
             [X |-> <<80, 120>>, Y |-> <<80, 120>>, Z |-> <<80, 200>>,
              Floors |-> <<5, 8>>, drawsFloors |-> TRUE, Material |-> "Marble"]
      [] OTHER ->
             [X |-> <<30, 60>>, Y |-> <<30, 60>>, Z |-> <<40, 120>>,
              Floors |-> <<2, 6>>, drawsFloors |-> TRUE, Material |-> "Mixed"]

\* GenerateBuilding(Type, Location, DistrictIndex): a fresh stream seeded
\* RandomSeed + DistrictIndex * 100.  The three arguments of FVector(...) are
\* evaluated in the order the build chose, first to last or last to first
GenerateBuilding(Type, Location, DistrictIndex) ==
    LET P == BuildingProfile(Type)
        s1 == MutateSeed(StreamInit(BuildingStreamSeed(DistrictIndex)))
        s2 == MutateSeed(s1)
        s3 == MutateSeed(s2)
        s4 == MutateSeed(s3)
        s5 == MutateSeed(s4)
        s6 == MutateSeed(s5)
        s7 == MutateSeed(s6)
        sX == IF cityCfg.ArgsFirstToLast THEN s4 ELSE s6
        sZ == IF cityCfg.ArgsFirstToLast THEN s6 ELSE s4
    IN  [BuildingId |-> <<"Building_", StreamRandRange(s1, 10000, 99999)>>,
         Location |-> Location,
         Size |-> Vec(StreamFRandRange(sX, P.X[1], P.X[2]),
                      StreamFRandRange(s5, P.Y[1], P.Y[2]),
                      StreamFRandRange(sZ, P.Z[1], P.Z[2])),
         BuildingType |-> Type,
         Floors |-> IF P.drawsFloors THEN StreamRandRange(s7, P.Floors[1], P.Floors[2])
                    ELSE 1,
         Material |-> P.Material,
         Rotation |-> (s2 * 360) \div RandModulus,
         bHasGarden |-> FALSE,
         Population |-> StreamRandRange(s3, 10, 500)]

\* the loops of PopulateDistricts from district i (0-based), attempt j on
RECURSIVE PopulateLoop(_, _, _, _)
PopulateLoop(i, j, Ds, RandomStream) ==
    IF i >= Len(Ds) THEN Ds
    ELSE IF j >= BuildingsPerDistrict THEN PopulateLoop(i + 1, 0, Ds, RandomStream)
    ELSE LET s1 == MutateSeed(RandomStream)
         IN  IF s1 * 100 > BuildingDensity * RandModulus
             THEN PopulateLoop(i, j + 1, Ds, s1)
             ELSE LET District == Ds[i + 1]
                      BuildingLocation == GenerateRandomLocationInDistrict(District)
                      mixed == District.DistrictType
                                   \notin {"residential", "commercial", "industrial"}
                      s2 == IF mixed THEN MutateSeed(s1) ELSE s1
                      BuildingType ==
                          IF District.DistrictType = "residential" THEN Residential
                          ELSE IF District.DistrictType = "commercial" THEN Commercial
                          ELSE IF District.DistrictType = "industrial" THEN Industrial
                          ELSE StreamRandRange(s2, 0, 8)
                      Building == GenerateBuilding(BuildingType, BuildingLocation, i)
                  IN  PopulateLoop(i, j + 1,
                                   [Ds EXCEPT ![i + 1].Buildings = Append(@, Building)], s2)

\* PopulateDistricts: the districts afterwards
PopulateDistricts(Ds) == PopulateLoop(0, 0, Ds, StreamInit(cityCfg.RandomSeed + 2))

\* IsValidBuildingLocation(Location, BuildingSize) over the districts Ds:
\* Dist < BuildingSize + Max(Size.X, Size.Y), compared as squares.  Nothing
\* calls it.
IsValidBuildingLocation(Ds, Location, BuildingSize) ==
    \A d \in 1..Len(Ds) : \A b \in 1..Len(Ds[d].Buildings) :
        LET Building == Ds[d].Buildings[b]
            dx == Location.X - Building.Location.X
            dy == Location.Y - Building.Location.Y
            reach == BuildingSize + Max(Building.Size.X, Building.Size.Y)
        IN  ~(reach > 0 /\ dx * dx + dy * dy < reach * reach)

\* ClearCity: the districts and roads afterwards; CityActors, which nothing
\* adds to, is emptied too
ClearCity(Ds, Roads) == [Districts |-> <<>>, RoadNetwork |-> <<>>]

\* GenerateCity laying the roads before the districts
GenerateCityRoadsFirst(Ds, Roads) ==
    LET c == ClearCity(Ds, Roads)
        r == GenerateRoadNetwork(c.Districts, c.RoadNetwork)
        d == GenerateDistricts(c.Districts)
    IN  [Districts |-> PopulateDistricts(d), RoadNetwork |-> r]

\* GenerateCity: the districts and roads afterwards
GenerateCity(Ds, Roads) ==
    LET c == ClearCity(Ds, Roads)
        d == GenerateDistricts(c.Districts)
        r == GenerateRoadNetwork(d, c.RoadNetwork)
    IN  [Districts |-> PopulateDistricts(d), RoadNetwork |-> r]

-----------------------------------------------------------------------------
(* AProceduralWeaponGenerator: the calls a caller makes *)

\* the property values the model is run with: MaxEnchantments below, at and
\* above the most a rarity asks for, and the chances (in hundredths) as
\* shipped, summing to less than 0.4 with every band hit, and summing to more
ChanceConfigs == {<<1, 5, 15>>, <<10, 10, 10>>, <<20, 20, 20>>}
WeaponConfigs ==
    {[RandomSeed |-> 999, MaxEnchantments |-> m, LegendaryChance |-> c[1],
      EpicChance |-> c[2], RareChance |-> c[3]] :
        m \in {0, 3, 5}, c \in ChanceConfigs}

\* the arguments a caller passes
CallTypes == {Sword, Staff, Hammer, Dagger}
CallLevels == {-11, 1, 2}
SetLevels == {-10, 1}

\* what the caller holds after a call: the operation, its arguments, the
\* value it returned, and for reference the draw DetermineRarity took, whether
\* the enchantment library was filled when the call ran, and (repeated,
\* previous) what the call before returned when that was the same call with
\* the same arguments on the same library
WeaponReturn(op, Type, Level, Count, weapons, roll, rarity) ==
    LET same == /\ weaponCall.op = op
                /\ weaponCall.Type = Type
                /\ weaponCall.Level = Level
                /\ weaponCall.Count = Count
                /\ weaponCall.libraryReady = (EnchantmentLibrary # <<>>)
    IN  [op |-> op, Type |-> Type, Level |-> Level, Count |-> Count,
         weapons |-> weapons, roll |-> roll, rarity |-> rarity,
         libraryReady |-> EnchantmentLibrary # <<>>, outcome |-> "returned",
         repeated |-> same,
         previous |-> IF same THEN weaponCall.weapons ELSE <<>>]

WeaponBeginPlay ==
    /\ EnchantmentLibrary = <<>>
    /\ EnchantmentLibrary' = EnchantmentPool
    /\ UNCHANGED <<weaponCfg, GeneratedWeapons, weaponCall, GRand, terrainVars, cityVars>>

DetermineRarityCall ==
    LET g1 == MutateSeed(GRand)
    IN  /\ weaponCall' = WeaponReturn("DetermineRarity", Sword, 0, 0, <<>>, g1, DetermineRarity(g1))
        /\ GRand' = g1
        /\ UNCHANGED <<weaponCfg, EnchantmentLibrary, GeneratedWeapons, terrainVars, cityVars>>

GenerateWeaponCall ==
    \E Type \in CallTypes, Level \in CallLevels :
        LET r == GenerateWeapon(Type, Level, GRand)
        IN  /\ weaponCall' = WeaponReturn("GenerateWeapon", Type, Level, 1, <<r.weapon>>,
                                          MutateSeed(MutateSeed(GRand)), r.weapon.Rarity)
            /\ GRand' = r.g
            /\ UNCHANGED <<weaponCfg, EnchantmentLibrary, GeneratedWeapons, terrainVars, cityVars>>

GenerateRandomWeaponCall ==
    \E Level \in SetLevels :
        LET r == GenerateRandomWeapon(Level, GRand)
        IN  /\ weaponCall' = WeaponReturn("GenerateRandomWeapon", Sword, Level, 1, <<r.weapon>>,
                                          0, r.weapon.Rarity)
            /\ GRand' = r.g
            /\ UNCHANGED <<weaponCfg, EnchantmentLibrary, GeneratedWeapons, terrainVars, cityVars>>

GenerateWeaponSetCall ==
    \E Count \in 0..MaxGenerated, Level \in SetLevels :
        /\ Len(GeneratedWeapons) + Count <= MaxGenerated
        /\ LET r == WeaponSetLoop(0, Count, Level, <<>>, GeneratedWeapons, GRand)
           IN  /\ weaponCall' = WeaponReturn("GenerateWeaponSet", Sword, Level, Count, r.set,
                                             0, Common)
               /\ GeneratedWeapons' = r.generated
               /\ GRand' = r.g
        /\ UNCHANGED <<weaponCfg, EnchantmentLibrary, terrainVars, cityVars>>

\* the caller enchants the weapon it was last returned
AddEnchantmentCall ==
    /\ weaponCall.weapons # <<>>
    /\ LET W == weaponCall.weapons[1]
           r == AddEnchantment(W, W.Element, GRand)
       IN  /\ weaponCall' = [weaponCall EXCEPT !.op = "AddEnchantment",
                                               !.weapons = [@ EXCEPT ![1] = r.weapon],
                                               !.repeated = FALSE, !.previous = <<>>]
           /\ GRand' = r.g
    /\ UNCHANGED <<weaponCfg, EnchantmentLibrary, GeneratedWeapons, terrainVars, cityVars>>

\* the terrain generator before any call
TerrainIdleCall ==
    [op |-> "none", outcome |-> "none", coords |-> <<>>, runs |-> 0,
     generated |-> <<>>, previous |-> <<>>, vegCalls |-> 0,
     args |-> <<0, 0, 0>>, biome |-> Plains]

TerrainIdle ==
    /\ terrainCfg = [RandomSeed |-> 12345, TerrainWidth |-> 256, TerrainHeight |-> 256,
                     NoiseOctaves |-> 4, NoisePersistence |-> 50,
                     TreeDensity |-> 30, RockDensity |-> 20, BushDensity |-> 25]
    /\ TerrainGrid = <<>>
    /\ terrainCall = TerrainIdleCall

\* the city generator before any call
CityIdleCall ==
    [op |-> "none", outcome |-> "none", populateCalls |-> 0, roadCalls |-> 0,
     cityRuns |-> 0]

CityIdle ==
    /\ cityCfg = [RandomSeed |-> 42, CityPopulation |-> 100000, CityRadius |-> 5000,
                  NumberOfDistricts |-> 8, BuildingsPerDistrict |-> 50,
                  BuildingDensity |-> 60, ArgsFirstToLast |-> TRUE]
    /\ Districts = <<>>
    /\ RoadNetwork = <<>>
    /\ cityCall = CityIdleCall

\* the weapon generator before any call
WeaponIdleCall ==
    [op |-> "none", Type |-> Sword, Level |-> 0, Count |-> 0, weapons |-> <<>>,
     roll |-> 0, rarity |-> Common, libraryReady |-> FALSE, outcome |-> "none",
     repeated |-> FALSE, previous |-> <<>>]

WeaponIdle ==
    /\ weaponCfg = [RandomSeed |-> 999, MaxEnchantments |-> 3, LegendaryChance |-> 1,
                    EpicChance |-> 5, RareChance |-> 15]
    /\ EnchantmentLibrary = <<>>
    /\ GeneratedWeapons = <<>>
    /\ weaponCall = WeaponIdleCall

WeaponInit ==
    /\ weaponCfg \in WeaponConfigs
    /\ EnchantmentLibrary = <<>>
    /\ GeneratedWeapons = <<>>
    /\ weaponCall = WeaponIdleCall
    /\ GRand \in 0..RandMax
    /\ TerrainIdle
    /\ CityIdle

\* a caller that generates single weapons and enchants them
WeaponNext ==
    \/ WeaponBeginPlay
    \/ DetermineRarityCall
    \/ GenerateWeaponCall
    \/ AddEnchantmentCall

SpecWeapon == WeaponInit /\ [][WeaponNext]_vars

\* a caller that generates random weapons and weapon sets
WeaponSetNext ==
    \/ WeaponBeginPlay
    \/ GenerateRandomWeaponCall
    \/ GenerateWeaponSetCall

SpecWeaponSet == WeaponInit /\ [][WeaponSetNext]_vars

-----------------------------------------------------------------------------
(* AProceduralTerrainGenerator: the calls a caller makes *)

\* the property values the model is run with: grids that are empty, square and
\* not square; no, one and two octaves; the densities as shipped and all 1
TerrainDims == {<<0, 2>>, <<1, 2>>, <<2, 2>>, <<2, 3>>}
TerrainConfigs ==
    {[RandomSeed |-> seed, TerrainWidth |-> d[1], TerrainHeight |-> d[2],
      NoiseOctaves |-> o, NoisePersistence |-> 50,
      TreeDensity |-> dens[1], RockDensity |-> dens[2], BushDensity |-> dens[3]] :
        seed \in {12345, 7}, d \in TerrainDims, o \in {0, 1, 2},
        dens \in {<<30, 20, 25>>, <<100, 100, 100>>}}

GenerateTerrainCall ==
    LET r == GenerateTerrain(GRand)
    IN  /\ TerrainGrid' = r.grid
        /\ GRand' = r.g
        /\ terrainCall' = [terrainCall EXCEPT
               !.op = "GenerateTerrain", !.outcome = "returned",
               !.coords = r.coords, !.vegCalls = 0]
        /\ UNCHANGED <<terrainCfg, weaponVars, cityVars>>

\* a full run is GenerateTerrain followed by one GenerateVegetation: generated
\* is the grid the last full run left, previous the grid the full run before
\* it left, runs the number of full runs so far
GenerateVegetationCall ==
    /\ terrainCall.vegCalls < MaxVegetationCalls
    /\ TerrainGrid' = GenerateVegetation(TerrainGrid)
    /\ LET endsRun == terrainCall.vegCalls = 0 /\ terrainCall.coords # <<>>
       IN  terrainCall' = [terrainCall EXCEPT
               !.op = "GenerateVegetation", !.outcome = "returned",
               !.vegCalls = @ + 1,
               !.runs = IF endsRun THEN Min(@ + 1, MaxCounted) ELSE @,
               !.previous = IF endsRun THEN terrainCall.generated ELSE @,
               !.generated = IF endsRun THEN GenerateVegetation(TerrainGrid) ELSE @]
    /\ UNCHANGED <<terrainCfg, GRand, weaponVars, cityVars>>

ClearTerrainCall ==
    /\ terrainCall.op # "ClearTerrain"
    /\ TerrainGrid' = ClearTerrain(TerrainGrid)
    /\ terrainCall' = [terrainCall EXCEPT !.op = "ClearTerrain", !.outcome = "returned"]
    /\ UNCHANGED <<terrainCfg, GRand, weaponVars, cityVars>>

TerrainInit ==
    /\ terrainCfg \in TerrainConfigs
    /\ TerrainGrid = <<>>
    /\ terrainCall = TerrainIdleCall
    /\ GRand \in 0..RandMax
    /\ WeaponIdle
    /\ CityIdle

TerrainNext ==
    \/ GenerateTerrainCall
    \/ GenerateVegetationCall
    \/ ClearTerrainCall

SpecTerrain == TerrainInit /\ [][TerrainNext]_vars

\* vegetation generated over the square grids
VegetationInit ==
    /\ terrainCfg \in {c \in TerrainConfigs : c.TerrainWidth = c.TerrainHeight}
    /\ TerrainGrid = <<>>
    /\ terrainCall = TerrainIdleCall
    /\ GRand \in 0..RandMax
    /\ WeaponIdle
    /\ CityIdle

VegetationNext ==
    \/ GenerateTerrainCall
    \/ GenerateVegetationCall

SpecVegetation == VegetationInit /\ [][VegetationNext]_vars

\* DetermineBiome called on its own: the arguments the caller is about to pass
\* are drawn at the start, in steps of 0.05 over [-1,1] x [0,1] x [0,1]
BiomeInputs ==
    {<<50 * h, 50 * m, 50 * t>> : h \in -20..20, m \in 0..20, t \in 0..20}

DetermineBiomeCall ==
    /\ terrainCall.op = "DetermineBiome"
    /\ terrainCall.outcome = "none"
    /\ terrainCall' = [terrainCall EXCEPT
           !.outcome = "returned",
           !.biome = DetermineBiome(terrainCall.args[1], terrainCall.args[2],
                                    terrainCall.args[3])]
    /\ UNCHANGED <<terrainCfg, TerrainGrid, GRand, weaponVars, cityVars>>

BiomeInit ==
    /\ terrainCfg \in {c \in TerrainConfigs : c.RandomSeed = 12345 /\ c.NoiseOctaves = 1
                                              /\ c.TerrainWidth = 2 /\ c.TerrainHeight = 2
                                              /\ c.TreeDensity = 30}
    /\ TerrainGrid = <<>>
    /\ \E a \in BiomeInputs :
           terrainCall = [TerrainIdleCall EXCEPT !.op = "DetermineBiome", !.args = a]
    /\ GRand = 0
    /\ WeaponIdle
    /\ CityIdle

BiomeNext == DetermineBiomeCall

SpecBiome == BiomeInit /\ [][BiomeNext]_vars

-----------------------------------------------------------------------------
(* AProceduralCityGenerator: the calls a caller makes *)

\* the property values the model is run with
CityConfigs ==
    {[RandomSeed |-> seed, CityPopulation |-> 100000, CityRadius |-> R,
      NumberOfDistricts |-> n, BuildingsPerDistrict |-> bpd,
      BuildingDensity |-> dens, ArgsFirstToLast |-> order] :
        seed \in {42, 7}, R \in {0, 1000}, n \in {0, 1, 2, 3}, bpd \in {0, 1, 2},
        dens \in {0, 60, 100}, order \in BOOLEAN}

ClearCityCall ==
    LET c == ClearCity(Districts, RoadNetwork)
    IN  /\ Districts' = c.Districts
        /\ RoadNetwork' = c.RoadNetwork
        /\ cityCall' = [cityCall EXCEPT !.op = "ClearCity", !.outcome = "returned",
                                        !.populateCalls = 0, !.roadCalls = 0]
        /\ UNCHANGED <<cityCfg, GRand, weaponVars, terrainVars>>

GenerateDistrictsCall ==
    /\ Districts' = GenerateDistricts(Districts)
    /\ cityCall' = [cityCall EXCEPT !.op = "GenerateDistricts", !.outcome = "returned",
                                    !.populateCalls = 0]
    /\ UNCHANGED <<cityCfg, RoadNetwork, GRand, weaponVars, terrainVars>>

GenerateRoadNetworkCall ==
    /\ RoadNetwork' = GenerateRoadNetwork(Districts, RoadNetwork)
    /\ cityCall' = [cityCall EXCEPT !.op = "GenerateRoadNetwork", !.outcome = "returned",
                                    !.roadCalls = Min(@ + 1, MaxCounted)]
    /\ UNCHANGED <<cityCfg, Districts, GRand, weaponVars, terrainVars>>

PopulateDistrictsCall ==
    /\ cityCall.populateCalls < MaxPopulateCalls
    /\ Districts' = PopulateDistricts(Districts)
    /\ cityCall' = [cityCall EXCEPT !.op = "PopulateDistricts", !.outcome = "returned",
                                    !.populateCalls = @ + 1]
    /\ UNCHANGED <<cityCfg, RoadNetwork, GRand, weaponVars, terrainVars>>

GenerateCityCall ==
    LET c == GenerateCity(Districts, RoadNetwork)
    IN  /\ Districts' = c.Districts
        /\ RoadNetwork' = c.RoadNetwork
        /\ cityCall' = [cityCall EXCEPT !.op = "GenerateCity", !.outcome = "returned",
                                        !.populateCalls = 1, !.roadCalls = 1,
                                        !.cityRuns = Min(@ + 1, MaxCounted)]
        /\ UNCHANGED <<cityCfg, GRand, weaponVars, terrainVars>>

CityInit ==
    /\ cityCfg \in CityConfigs
    /\ Districts = <<>>
    /\ RoadNetwork = <<>>
    /\ cityCall = CityIdleCall
    /\ GRand = 0
    /\ WeaponIdle
    /\ TerrainIdle

CityNext ==
    \/ ClearCityCall
    \/ GenerateDistrictsCall
    \/ GenerateRoadNetworkCall
    \/ PopulateDistrictsCall
    \/ GenerateCityCall

SpecCity == CityInit /\ [][CityNext]_vars

-----------------------------------------------------------------------------
(* Properties of the weapon generator *)

\* the weapon the last call returned (the first one of a set)
ReturnedWeapon == weaponCall.weapons[1]

\* Random < c, for a chance c in hundredths and the recorded draw
RollBelow(c) == weaponCall.roll * 100 < c * RandMax

\* C7: DetermineRarity maps its draw to a rarity by cumulative bands checked in
\* order (Legendary below p_legendary, else Epic below p_legendary+p_epic, else
\* Rare below the sum of the three, else Uncommon below 0.4, else Common); when
\* the three chances sum to at most 0.4 the five bands are the consecutive
\* intervals [0,pl), [pl,pl+pe), [pl+pe,sum), [sum,0.4), [0.4,1], which do not
\* overlap and cover every draw.
C7_RarityBands ==
    weaponCall.op \in {"DetermineRarity", "GenerateWeapon"} =>
        LET L == LegendaryChance
            LE == LegendaryChance + EpicChance
            LER == LegendaryChance + EpicChance + RareChance
            r == weaponCall.rarity
        IN  /\ r \in Rarities
            /\ (r = Legendary) <=> RollBelow(L)
            /\ (r = Epic) <=> (~RollBelow(L) /\ RollBelow(LE))
            /\ (r = Rare) <=> (~RollBelow(L) /\ ~RollBelow(LE) /\ RollBelow(LER))
            /\ (r = Uncommon) <=>
                   (~RollBelow(L) /\ ~RollBelow(LE) /\ ~RollBelow(LER)
                        /\ RollBelow(UncommonThreshold))
            /\ LER <= UncommonThreshold =>
                   /\ (r = Epic) <=> (~RollBelow(L) /\ RollBelow(LE))
                   /\ (r = Rare) <=> (~RollBelow(LE) /\ RollBelow(LER))
                   /\ (r = Uncommon) <=> (~RollBelow(LER) /\ RollBelow(UncommonThreshold))
                   /\ (r = Common) <=> ~RollBelow(UncommonThreshold)

\* C7 witness: with chances summing to at most 0.4, a draw fell in the
\* Uncommon band
C7_Witness ==
    /\ weaponCall.op = "DetermineRarity"
    /\ LegendaryChance + EpicChance + RareChance < UncommonThreshold
    /\ weaponCall.rarity = Uncommon

\* the enchantments the claim gives each rarity
ClaimedEnchantments(r) ==
    CASE r = Legendary -> 4 [] r = Epic -> 3 [] r = Rare -> 2
      [] r = Uncommon -> 1 [] r = Common -> 0

PoolNames == {EnchantmentPool[i] : i \in 1..Len(EnchantmentPool)}

\* C9 as stated: every weapon GenerateWeapon returns carries exactly
\* min(c, MaxEnchantments) enchantments, c = 4, 3, 2, 1, 0 by rarity, each a
\* name of the pool, and after any further AddEnchantment calls its count
\* does not exceed MaxEnchantments.
C9_AsStated ==
    /\ weaponCall.op = "GenerateWeapon" =>
           /\ Len(ReturnedWeapon.Enchantments)
                  = Min(ClaimedEnchantments(ReturnedWeapon.Rarity), MaxEnchantments)
           /\ \A i \in 1..Len(ReturnedWeapon.Enchantments) :
                  ReturnedWeapon.Enchantments[i] \in PoolNames
    /\ weaponCall.op \in {"GenerateWeapon", "AddEnchantment"} =>
           Len(ReturnedWeapon.Enchantments) <= MaxEnchantments

\* C9 amended: a weapon GenerateWeapon returns once BeginPlay has filled the
\* enchantment library carries exactly min(c, MaxEnchantments) enchantments,
\* each a name of the pool; a weapon generated before that carries none; and
\* in both cases the count does not exceed MaxEnchantments, also after any
\* further AddEnchantment calls.
C9_EnchantmentCount ==
    /\ weaponCall.op = "GenerateWeapon" =>
           /\ Len(ReturnedWeapon.Enchantments)
                  = IF weaponCall.libraryReady
                    THEN Min(ClaimedEnchantments(ReturnedWeapon.Rarity), MaxEnchantments)
                    ELSE 0
           /\ \A i \in 1..Len(ReturnedWeapon.Enchantments) :
                  ReturnedWeapon.Enchantments[i] \in PoolNames
    /\ weaponCall.op \in {"GenerateWeapon", "AddEnchantment"} =>
           Len(ReturnedWeapon.Enchantments) <= MaxEnchantments

\* C9 witness: a Legendary weapon generated after BeginPlay with
\* MaxEnchantments = 3 holds three enchantments, and the caller has called
\* AddEnchantment on it
C9_Witness ==
    /\ weaponCall.op = "AddEnchantment"
    /\ weaponCall.libraryReady
    /\ ReturnedWeapon.Rarity = Legendary
    /\ MaxEnchantments = 3
    /\ Len(ReturnedWeapon.Enchantments) = 3

\* C10 as stated: gold_value = 100 + 200*rarity_rank + 5*damage
\* + 150*enchantment_count for every weapon GenerateWeapon returns (damage is
\* counted in hundredths, so both sides are multiplied by 100).
C10_AsStated ==
    weaponCall.op = "GenerateWeapon" =>
        ReturnedWeapon.GoldValue * 100
            = 10000 + 20000 * ReturnedWeapon.Rarity + 5 * ReturnedWeapon.Stats.Damage
                + 15000 * Len(ReturnedWeapon.Enchantments)

\* C10 amended: gold_value = 100 + 200*rarity_rank + t + 150*enchantment_count
\* where t is 5*damage truncated toward zero to an integer, rarity_rank the
\* ordinal of the rarity and enchantment_count the number of enchantments
\* attached.
C10_GoldValue ==
    weaponCall.op = "GenerateWeapon" =>
        LET D == ReturnedWeapon.Stats.Damage
            t == ReturnedWeapon.GoldValue - 100 - 200 * ReturnedWeapon.Rarity
                     - 150 * Len(ReturnedWeapon.Enchantments)
        IN  IF D >= 0
            THEN t >= 0 /\ t * 100 <= 5 * D /\ 5 * D < (t + 1) * 100
            ELSE t <= 0 /\ (t - 1) * 100 < 5 * D /\ 5 * D <= t * 100

\* C10 witness: a returned weapon whose 5*damage is not an integer, whose
\* rarity asked for more enchantments than MaxEnchantments allows
C10_Witness ==
    /\ weaponCall.op = "GenerateWeapon"
    /\ (5 * ReturnedWeapon.Stats.Damage) % 100 # 0
    /\ Len(ReturnedWeapon.Enchantments) > 0
    /\ Len(ReturnedWeapon.Enchantments) < ClaimedEnchantments(ReturnedWeapon.Rarity)


\* C11: the name of every weapon GenerateWeapon returns is its non-empty parts
\* (rarity prefix, element adjective, type noun) joined by single spaces: it
\* neither starts nor ends with a space nor holds two spaces in a row;
\* (Sword, Legendary, Fire) is named "Legendary Flaming Sword" and
\* (Dagger, Common, Pure) exactly "Dagger"
C11_AsStated ==
    weaponCall.op = "GenerateWeapon" =>
        LET n == ReturnedWeapon.WeaponName
        IN  /\ n # <<>>
            /\ n[1] # " "
            /\ n[Len(n)] # " "
            /\ \A i \in 1..(Len(n) - 1) : ~(n[i] = " " /\ n[i + 1] = " ")
            /\ (ReturnedWeapon.Type = Sword /\ ReturnedWeapon.Rarity = Legendary
                    /\ ReturnedWeapon.Element = Fire) =>
                   n = <<"Legendary", " ", "Flaming", " ", "Sword">>
            /\ (ReturnedWeapon.Type = Dagger /\ ReturnedWeapon.Rarity = Common
                    /\ ReturnedWeapon.Element = Pure) =>
                   n = <<"Dagger">>

\* the weapons the last generation call returned
ReturnedWeapons == {weaponCall.weapons[i] : i \in 1..Len(weaponCall.weapons)}

\* C12: every weapon returned by GenerateWeapon, GenerateRandomWeapon or
\* GenerateWeaponSet, whatever Level was passed, has required_level >= 1,
\* weight > 0, damage > 0 and gold_value >= 0
C12_AsStated ==
    weaponCall.op \in {"GenerateWeapon", "GenerateRandomWeapon", "GenerateWeaponSet"} =>
        \A w \in ReturnedWeapons :
            /\ w.RequiredLevel >= 1
            /\ w.Weight > 0
            /\ w.Stats.Damage > 0
            /\ w.GoldValue >= 0

\* C13: a step of GenerateWeapon, GenerateRandomWeapon or GenerateWeaponSet
\* changes nothing but what the caller holds: GeneratedWeapons,
\* EnchantmentLibrary, the properties and the process-wide random state are
\* left as they were
C13_AsStated ==
    [][(GenerateWeaponCall \/ GenerateRandomWeaponCall \/ GenerateWeaponSetCall) =>
           UNCHANGED <<GeneratedWeapons, EnchantmentLibrary, weaponCfg, GRand>>]_vars

-----------------------------------------------------------------------------
(* Properties of the city generator *)

\* every building placed, as (district index, building index) pairs
PlacedBuildings ==
    UNION {{<<i, j>> : j \in 1..Len(Districts[i].Buildings)} : i \in 1..Len(Districts)}

BuildingAt(p) == Districts[p[1]].Buildings[p[2]]

\* the side of a building's footprint: the larger of its two ground extents
Footprint(b) == Max(b.Size.X, b.Size.Y)

DistSquared2D(a, b) == (a.X - b.X) * (a.X - b.X) + (a.Y - b.Y) * (a.Y - b.Y)

ValidCityConfig ==
    /\ NumberOfDistricts > 0
    /\ CityRadius > 0
    /\ BuildingsPerDistrict >= 0
    /\ BuildingDensity >= 0 /\ BuildingDensity <= 100

\* C1: after GenerateCity on a valid configuration no two buildings overlap:
\* the distance between the centres of any two distinct buildings is at least
\* the sum of their half-footprints (compared squared and times four)
C1_AsStated ==
    (cityCall.op = "GenerateCity" /\ ValidCityConfig) =>
        \A p \in PlacedBuildings : \A q \in PlacedBuildings :
            p # q =>
                4 * DistSquared2D(BuildingAt(p).Location, BuildingAt(q).Location)
                    >= (Footprint(BuildingAt(p)) + Footprint(BuildingAt(q)))
                       * (Footprint(BuildingAt(p)) + Footprint(BuildingAt(q)))

\* C3: right after GenerateCity on n >= 1 districts the city holds exactly n
\* districts and 2n roads, whatever it held before, and is the city the same
\* call builds from an empty generator with the same properties
C3_Reproducible ==
    (cityCall.op = "GenerateCity" /\ NumberOfDistricts > 0) =>
        /\ Len(Districts) = NumberOfDistricts
        /\ Len(RoadNetwork) = 2 * NumberOfDistricts
        /\ Districts = GenerateCity(<<>>, <<>>).Districts
        /\ RoadNetwork = GenerateCity(<<>>, <<>>).RoadNetwork

\* C3 happens: a second GenerateCity has run on three districts and placed a
\* building
C3_Witness ==
    /\ cityCall.op = "GenerateCity"
    /\ cityCall.cityRuns >= 2
    /\ NumberOfDistricts = 3
    /\ Len(Districts) = 3
    /\ \E i \in 1..Len(Districts) : Len(Districts[i].Buildings) > 0

MainRoadOf(i) ==
    [StartPoint |-> Districts[i + 1].Center,
     EndPoint |-> Districts[((i + 1) % Len(Districts)) + 1].Center,
     RoadType |-> "main", Width |-> 25]

SecondaryRoadOf(i) ==
    [StartPoint |-> Districts[i + 1].Center, EndPoint |-> ActorLocation,
     RoadType |-> "secondary", Width |-> 15]

\* C4: after GenerateRoadNetwork over n districts laid out on a positive
\* radius there are exactly 2n roads: for each district i exactly one main
\* road of width 25 from its centre to the centre of district (i+1) mod n and
\* exactly one secondary road of width 15 from its centre to the city centre,
\* and no road of an earlier call
C4_RoadNetwork ==
    (cityCall.op \in {"GenerateRoadNetwork", "GenerateCity"} /\ CityRadius > 0) =>
        /\ Len(RoadNetwork) = 2 * Len(Districts)
        /\ \A i \in 0..(Len(Districts) - 1) :
               /\ Cardinality({k \in 1..Len(RoadNetwork) :
                                   RoadNetwork[k] = MainRoadOf(i)}) = 1
               /\ Cardinality({k \in 1..Len(RoadNetwork) :
                                   RoadNetwork[k] = SecondaryRoadOf(i)}) = 1
        /\ \A k \in 1..Len(RoadNetwork) :
               \E i \in 0..(Len(Districts) - 1) :
                   RoadNetwork[k] \in {MainRoadOf(i), SecondaryRoadOf(i)}

\* C4 happens: GenerateRoadNetwork has run a second time over three districts
C4_Witness ==
    /\ cityCall.op = "GenerateRoadNetwork"
    /\ cityCall.roadCalls >= 2
    /\ CityRadius > 0
    /\ Len(Districts) = 3
    /\ Len(RoadNetwork) = 6

\* C14: after GenerateCity no two distinct buildings drew their location from
\* streams created with the same seed, nor their id, size, floors, rotation
\* and population; and two buildings of one district are not copies of each
\* other in location and drawn attributes
C14_AsStated ==
    cityCall.op = "GenerateCity" =>
        \A p \in PlacedBuildings : \A q \in PlacedBuildings :
            p # q =>
                /\ LocationStreamSeed(Districts[p[1]]) # LocationStreamSeed(Districts[q[1]])
                /\ BuildingStreamSeed(p[1] - 1) # BuildingStreamSeed(q[1] - 1)
                /\ p[1] = q[1] =>
                       ~(/\ BuildingAt(p).Location = BuildingAt(q).Location
                         /\ BuildingAt(p).BuildingId = BuildingAt(q).BuildingId
                         /\ BuildingAt(p).Rotation = BuildingAt(q).Rotation
                         /\ BuildingAt(p).Population = BuildingAt(q).Population)

\* the stage of the pipeline the stored city is in: populated once a district
\* holds a building, connected once the districts have roads, laid once there
\* are districts, else empty
CityStage ==
    IF Districts = <<>> /\ RoadNetwork = <<>> THEN "Empty"
    ELSE IF PlacedBuildings # {} THEN "Populated"
    ELSE IF RoadNetwork # <<>> THEN "RoadsConnected"
    ELSE "DistrictsLaid"

\* C15: the city only moves Empty -> DistrictsLaid -> RoadsConnected ->
\* Populated: a separately called stage that changes the districts or the
\* roads runs on a city that is in the stage before it, and PopulateDistricts
\* appends no second batch of buildings to districts that are populated
C15_AsStated ==
    [][/\ (GenerateDistrictsCall /\ Districts' # Districts) => CityStage = "Empty"
       /\ (GenerateRoadNetworkCall /\ RoadNetwork' # RoadNetwork) =>
              CityStage = "DistrictsLaid"
       /\ (PopulateDistrictsCall /\ Districts' # Districts) =>
              CityStage = "RoadsConnected"]_vars

-----------------------------------------------------------------------------
(* Properties of the terrain generator *)

\* C5: after GenerateTerrain on a width x height grid the grid holds
\* width * height cells and the cell at index y * width + x is the one
\* generated for coordinate (x, y)
C5_AsStated ==
    (terrainCall.op = "GenerateTerrain" /\ TerrainWidth > 0 /\ TerrainHeight > 0) =>
        /\ Len(TerrainGrid) = TerrainWidth * TerrainHeight
        /\ Len(terrainCall.coords) = TerrainWidth * TerrainHeight
        /\ \A x \in 0..(TerrainWidth - 1) : \A y \in 0..(TerrainHeight - 1) :
               terrainCall.coords[y * TerrainWidth + x + 1] = <<x, y>>

\* C6: DetermineBiome returns one of the eight biomes for every input in
\* [-1,1] x [0,1] x [0,1], namely that of the first matching rule in the
\* order ocean (height < -0.3), mountain (height > 0.7), tundra
\* (temperature < 0.2), jungle (temperature > 0.8 and moisture > 0.6), desert
\* (temperature > 0.8 and moisture < 0.3), forest (height > 0.4 and
\* moisture > 0.5), volcanic (temperature > 0.6 and height > 0.5), and plains
\* when no rule matches
C6_BiomeRules ==
    (terrainCall.op = "DetermineBiome" /\ terrainCall.outcome = "returned") =>
        LET h == terrainCall.args[1]
            m == terrainCall.args[2]
            t == terrainCall.args[3]
            b == terrainCall.biome
            ocean == h < -300
            mountain == h > 700
            tundra == t < 200
            jungle == t > 800 /\ m > 600
            desert == t > 800 /\ m < 300
            forest == h > 400 /\ m > 500
            volcanic == t > 600 /\ h > 500
        IN  /\ b \in {Plains, Forest, Desert, Mountain, Tundra, Volcanic, Jungle, Ocean}
            /\ (b = Ocean) <=> ocean
            /\ (b = Mountain) <=> (~ocean /\ mountain)
            /\ (b = Tundra) <=> (~ocean /\ ~mountain /\ tundra)
            /\ (b = Jungle) <=> (~ocean /\ ~mountain /\ ~tundra /\ jungle)
            /\ (b = Desert) <=> (~ocean /\ ~mountain /\ ~tundra /\ ~jungle /\ desert)
            /\ (b = Forest) <=> (~ocean /\ ~mountain /\ ~tundra /\ ~jungle /\ ~desert
                                 /\ forest)
            /\ (b = Volcanic) <=> (~ocean /\ ~mountain /\ ~tundra /\ ~jungle /\ ~desert
                                   /\ ~forest /\ volcanic)
            /\ (b = Plains) <=> (~ocean /\ ~mountain /\ ~tundra /\ ~jungle /\ ~desert
                                 /\ ~forest /\ ~volcanic)

\* C6 happens: an input matching both the forest and the volcanic rule, and
\* no earlier one, has been classified and came out forest
C6_Witness ==
    /\ terrainCall.op = "DetermineBiome"
    /\ terrainCall.outcome = "returned"
    /\ terrainCall.args[1] > 500 /\ terrainCall.args[1] <= 700
    /\ terrainCall.args[2] > 500
    /\ terrainCall.args[3] > 600 /\ terrainCall.args[3] <= 800
    /\ terrainCall.biome = Forest

\* C16: in the grid GenerateTerrain stores from valid properties, moisture
\* lies in [0,1] and is a non-increasing function of height alone: cells of
\* equal height have equal moisture and a higher cell is never moister
C16_AsStated ==
    (terrainCall.op = "GenerateTerrain" /\ NoiseOctaves > 0) =>
        \A i \in 1..Len(TerrainGrid) : \A j \in 1..Len(TerrainGrid) :
            /\ TerrainGrid[i].Moisture >= 0 /\ TerrainGrid[i].Moisture <= 1000
            /\ TerrainGrid[i].Height = TerrainGrid[j].Height =>
                   TerrainGrid[i].Moisture = TerrainGrid[j].Moisture
            /\ TerrainGrid[i].Height > TerrainGrid[j].Height =>
                   TerrainGrid[i].Moisture <= TerrainGrid[j].Moisture

\* C17: the height GenerateTerrain stores in the cell of (x, y) is the
\* normalized noise v of (x, y) rescaled to [-1,1], height = 2v - 1 (in
\* thousandths 2v - 1000)
C17_AsStated ==
    (terrainCall.op = "GenerateTerrain" /\ NoiseOctaves > 0) =>
        \A i \in 1..Len(TerrainGrid) :
            TerrainGrid[i].Height
                = 2 * GetPerlinNoise(terrainCall.coords[i][1], terrainCall.coords[i][2],
                                     terrainCfg.RandomSeed) - 1000

\* what the stored heights are instead: never below 0, so that with valid
\* properties no cell is below -0.3, none is Ocean and every cell is walkable
StoredHeightsUnscaled ==
    (terrainCall.op \in {"GenerateTerrain", "GenerateVegetation"} /\ NoiseOctaves > 0) =>
        \A i \in 1..Len(TerrainGrid) :
            /\ TerrainGrid[i].Height >= 0 /\ TerrainGrid[i].Height <= 1000
            /\ TerrainGrid[i].BiomeType # Ocean
            /\ TerrainGrid[i].bWalkable

\* the n-th draw of a stream seeded with the terrain's RandomSeed
RECURSIVE NthDraw(_)
NthDraw(n) ==
    IF n = 0 THEN StreamInit(terrainCfg.RandomSeed) ELSE MutateSeed(NthDraw(n - 1))

RollsTree(cell) == cell.BiomeType \in {Forest, Jungle}

\* the rolls the cells before index i have taken: none for a cell that is not
\* walkable, else one for rock, one for bush, and one for tree in a forest or
\* jungle cell
RECURSIVE RollsBefore(_)
RollsBefore(i) ==
    IF i <= 1 THEN 0
    ELSE RollsBefore(i - 1)
             + (IF ~TerrainGrid[i - 1].bWalkable THEN 0
                ELSE IF RollsTree(TerrainGrid[i - 1]) THEN 3 ELSE 2)

Below(roll, density) == roll * 100 < density * RandModulus

\* the tags cell i is to carry after one GenerateVegetation
ExpectedObjects(i) ==
    LET cell == TerrainGrid[i]
        k == RollsBefore(i)
        t == IF RollsTree(cell) THEN 1 ELSE 0
        tree == RollsTree(cell) /\ Below(NthDraw(k + 1), TreeDensity)
        rock == Below(NthDraw(k + t + 1), RockDensity)
        bush == Below(NthDraw(k + t + 2), BushDensity)
    IN  IF ~cell.bWalkable THEN <<>>
        ELSE (IF tree THEN <<"tree">> ELSE <<>>)
                 \o (IF rock THEN <<"rock">> ELSE <<>>)
                 \o (IF bush THEN <<"bush">> ELSE <<>>)

\* C18: after GenerateTerrain and one GenerateVegetation a cell that is not
\* walkable carries no tag, "tree" is carried only by Forest and Jungle cells,
\* every tag is tree, rock or bush, and a cell carries each tag at most once,
\* in the order tree, rock, bush, exactly when the tag's own roll was
\* strictly below its density
C18_Vegetation ==
    terrainCall.vegCalls = 1 =>
        \A i \in 1..Len(TerrainGrid) :
            LET O == TerrainGrid[i].Objects
            IN  /\ ~TerrainGrid[i].bWalkable => O = <<>>
                /\ (\E k \in 1..Len(O) : O[k] = "tree") => RollsTree(TerrainGrid[i])
                /\ \A k \in 1..Len(O) : O[k] \in {"tree", "rock", "bush"}
                /\ \A k \in 1..Len(O) : \A l \in 1..Len(O) : k # l => O[k] # O[l]
                /\ O = ExpectedObjects(i)

\* C18 happens: one GenerateVegetation has run over a grid holding a forest
\* or jungle cell with a tree, a forest or jungle cell whose tree roll failed,
\* and a cell of another biome that got a tag
C18_Witness ==
    /\ terrainCall.op = "GenerateVegetation"
    /\ terrainCall.vegCalls = 1
    /\ \E i \in 1..Len(TerrainGrid) :
           /\ RollsTree(TerrainGrid[i])
           /\ TerrainGrid[i].Objects # <<>>
           /\ TerrainGrid[i].Objects[1] = "tree"
    /\ \E i \in 1..Len(TerrainGrid) :
           /\ RollsTree(TerrainGrid[i])
           /\ \A k \in 1..Len(TerrainGrid[i].Objects) : TerrainGrid[i].Objects[k] # "tree"
    /\ \E i \in 1..Len(TerrainGrid) :
           /\ ~RollsTree(TerrainGrid[i])
           /\ TerrainGrid[i].Objects # <<>>

\* C19: after GenerateTerrain and any number k >= 1 of GenerateVegetation
\* calls every cell carries the tags a single GenerateVegetation gives it, at
\* most one tree, one rock and one bush: tags of earlier calls do not
\* accumulate
C19_AsStated ==
    terrainCall.vegCalls >= 1 =>
        \A i \in 1..Len(TerrainGrid) :
            LET O == TerrainGrid[i].Objects
            IN  /\ O = ExpectedObjects(i)
                /\ \A k \in 1..Len(O) : \A l \in 1..Len(O) : k # l => O[k] # O[l]

-----------------------------------------------------------------------------
(* Properties across the generators *)

InvalidWeaponConfig ==
    LegendaryChance + EpicChance + RareChance > UncommonThreshold

InvalidTerrainConfig ==
    \/ TerrainWidth <= 0
    \/ TerrainHeight <= 0
    \/ NoiseOctaves <= 0

InvalidCityConfig ==
    \/ NumberOfDistricts <= 0
    \/ CityRadius <= 0

\* C2: two full terrain runs (GenerateTerrain then GenerateVegetation) with
\* the same valid properties leave identical grids, and two weapon generation
\* calls (GenerateWeapon, GenerateRandomWeapon, GenerateWeaponSet) with the same
\* arguments on the same properties return identical weapons, whatever other
\* random draws the process made before or in between
C2_AsStated ==
    /\ (terrainCall.op = "GenerateVegetation" /\ terrainCall.runs >= 2
            /\ ~InvalidTerrainConfig) =>
           terrainCall.generated = terrainCall.previous
    /\ (weaponCall.op \in {"GenerateWeapon", "GenerateRandomWeapon", "GenerateWeaponSet"}
            /\ weaponCall.repeated /\ ~InvalidWeaponConfig) =>
           weaponCall.weapons = weaponCall.previous

\* C8: a generation call on an invalid configuration is reported as a
\* ConfigurationError and produces no entity: no weapon is returned or
\* stored, no terrain cell is stored, no district or road is stored
C8_AsStated ==
    /\ (weaponCall.op \in {"GenerateWeapon", "GenerateRandomWeapon", "GenerateWeaponSet"}
            /\ InvalidWeaponConfig) =>
           /\ weaponCall.outcome = "ConfigurationError"
           /\ weaponCall.weapons = <<>>
           /\ GeneratedWeapons = <<>>
    /\ (terrainCall.op = "GenerateTerrain" /\ InvalidTerrainConfig) =>
           /\ terrainCall.outcome = "ConfigurationError"
           /\ TerrainGrid = <<>>
    /\ (cityCall.op = "GenerateCity" /\ InvalidCityConfig) =>
           /\ cityCall.outcome = "ConfigurationError"
           /\ Districts = <<>>
           /\ RoadNetwork = <<>>

====
